---- MODULE Spec2Model ----
(***************************************************************************)
(* A model of dragonfly-client's identifier generator                      *)
(* (dragonfly-client-util/src/id_generator/mod.rs) and of its error        *)
(* taxonomy (dragonfly-client-core/src/error/mod.rs).                      *)
(*                                                                         *)
(* Rust strings are modelled as sequences of bytes (their UTF-8 encoding), *)
(* written here as sequences of ASCII codes.  Rendered error messages,     *)
(* which are only ever compared, are TLA+ strings.  Option<T> is a         *)
(* sequence of length at most one: None is <<>>, Some(x) is <<x>>.         *)
(***************************************************************************)
EXTENDS Integers, Sequences, FiniteSets, TLC

VARIABLES
    gens,      \* the two IDGenerator instances under observation
    inputs,    \* the arguments of the two task_id calls under observation
    hashed,    \* per call: Some(bytes fed to the Sha256 hasher) once it ran to the end
    out,       \* per call: Some(Result<String>) once task_id returned
    hostOut,   \* per generator: Some(host_id()) once called
    peerOut,   \* per generator: the peer ids returned so far, oldest first
    failure,   \* the two native failures raised at a call boundary
    dferr,     \* per failure: Some(DFError) once converted into the taxonomy
    rendered   \* per failure: Some(format!("{}", err)) once rendered

vars == <<gens, inputs, hashed, out, hostOut, peerOut, failure, dferr, rendered>>

(***************************************************************************)
(* Bounds of the model.                                                    *)
(***************************************************************************)
\* The largest number of '&'-separated segments in a generated query string.
MaxPairs == 2

(***************************************************************************)
(* Option and Result.                                                      *)
(***************************************************************************)
None == <<>>
Some(x) == <<x>>
IsSome(o) == o # <<>>
Unwrap(o) == o[1]

Ok(v) == [ok |-> TRUE, val |-> v]
Err(e) == [ok |-> FALSE, err |-> e]

(***************************************************************************)
(* Byte strings.                                                           *)
(***************************************************************************)
RECURSIVE Concat(_)
\* The concatenation of a sequence of byte strings.
Concat(ss) == IF ss = <<>> THEN <<>> ELSE Head(ss) \o Concat(Tail(ss))

\* The position of the first occurrence of byte c in s, or 0.
IndexOf(s, c) ==
    LET hits == {i \in 1..Len(s) : s[i] = c} IN
    IF hits = {} THEN 0 ELSE CHOOSE i \in hits : \A j \in hits : i <= j

EndsWith(s, suffix) ==
    /\ Len(s) >= Len(suffix)
    /\ SubSeq(s, Len(s) - Len(suffix) + 1, Len(s)) = suffix

IsAsciiAlpha(b) == (b >= 65 /\ b <= 90) \/ (b >= 97 /\ b <= 122)
IsAsciiDigit(b) == b >= 48 /\ b <= 57
IsAsciiHexDigit(b) ==
    IsAsciiDigit(b) \/ (b >= 65 /\ b <= 70) \/ (b >= 97 /\ b <= 102)

\* The value of an ASCII hexadecimal digit.
HexValue(b) ==
    IF IsAsciiDigit(b) THEN b - 48
    ELSE IF b >= 97 THEN b - 97 + 10
    ELSE b - 65 + 10

RECURSIVE U64Digits(_)
U64Digits(n) ==
    IF n < 10 THEN <<48 + n>> ELSE U64Digits(n \div 10) \o <<48 + (n % 10)>>

\* Mutant: only the last decimal digit is rendered.
U64ToStringLastDigit(n) == <<48 + (n % 10)>>

\* u64::to_string: the decimal digits, most significant first.
U64ToString(n) == U64Digits(n)

(***************************************************************************)
(* The url crate, as far as task_id uses it: Url::parse, Url::query_pairs, *)
(* Url::query_pairs_mut().clear().extend_pairs(..) and Url's Display.      *)
(* A parsed Url is the record [scheme, rest, query, fragment]: rest is the *)
(* serialised authority and path, query and fragment are Options.          *)
(***************************************************************************)
UpperHex == <<48, 49, 50, 51, 52, 53, 54, 55, 56, 57, 65, 66, 67, 68, 69, 70>>
LowerHex == <<48, 49, 50, 51, 52, 53, 54, 55, 56, 57, 97, 98, 99, 100, 101, 102>>

\* percent_encoding::percent_encode_byte: "%XX", upper-case hexadecimal.
PercentEncodeByte(b) == <<37, UpperHex[(b \div 16) + 1], UpperHex[(b % 16) + 1]>>

RECURSIVE PercentDecode(_)
\* percent_encoding::percent_decode: "%XY" with two hexadecimal digits is the
\* byte 16*X+Y; a '%' not followed by two hexadecimal digits is kept.
PercentDecode(s) ==
    IF s = <<>> THEN <<>>
    ELSE IF /\ s[1] = 37
            /\ Len(s) >= 3
            /\ IsAsciiHexDigit(s[2])
            /\ IsAsciiHexDigit(s[3])
         THEN <<16 * HexValue(s[2]) + HexValue(s[3])>>
                  \o PercentDecode(SubSeq(s, 4, Len(s)))
         ELSE <<s[1]>> \o PercentDecode(Tail(s))

\* form_urlencoded::replace_plus: '+' stands for a space.
ReplacePlus(s) == [i \in 1..Len(s) |-> IF s[i] = 43 THEN 32 ELSE s[i]]

IsCont(s, i) == i <= Len(s) /\ s[i] >= 128 /\ s[i] <= 191

\* Whether byte c may follow lead byte b of a three- or four-byte sequence.
SecondOk(b, s) ==
    /\ Len(s) >= 2
    /\ LET c == s[2] IN
       \/ b = 224 /\ c >= 160 /\ c <= 191
       \/ b >= 225 /\ b <= 236 /\ c >= 128 /\ c <= 191
       \/ b = 237 /\ c >= 128 /\ c <= 159
       \/ b >= 238 /\ b <= 239 /\ c >= 128 /\ c <= 191
       \/ b = 240 /\ c >= 144 /\ c <= 191
       \/ b >= 241 /\ b <= 243 /\ c >= 128 /\ c <= 191
       \/ b = 244 /\ c >= 128 /\ c <= 143

\* The first chunk of s (non-empty) as core::str::Utf8Chunks cuts it: a valid
\* character of len bytes, or an invalid sequence of len bytes.
Utf8Chunk(s) ==
    LET b == s[1] IN
    IF b < 128 THEN [valid |-> TRUE, len |-> 1]
    ELSE IF b >= 194 /\ b <= 223
         THEN IF IsCont(s, 2) THEN [valid |-> TRUE, len |-> 2]
              ELSE [valid |-> FALSE, len |-> 1]
    ELSE IF b >= 224 /\ b <= 239
         THEN IF ~SecondOk(b, s) THEN [valid |-> FALSE, len |-> 1]
              ELSE IF IsCont(s, 3) THEN [valid |-> TRUE, len |-> 3]
              ELSE [valid |-> FALSE, len |-> 2]
    ELSE IF b >= 240 /\ b <= 244
         THEN IF ~SecondOk(b, s) THEN [valid |-> FALSE, len |-> 1]
              ELSE IF ~IsCont(s, 3) THEN [valid |-> FALSE, len |-> 2]
              ELSE IF IsCont(s, 4) THEN [valid |-> TRUE, len |-> 4]
              ELSE [valid |-> FALSE, len |-> 3]
    ELSE [valid |-> FALSE, len |-> 1]

RECURSIVE DecodeUtf8Lossy(_)
\* String::from_utf8_lossy: every invalid sequence becomes U+FFFD (EF BF BD).
DecodeUtf8Lossy(s) ==
    IF s = <<>> THEN <<>>
    ELSE LET c == Utf8Chunk(s) IN
         (IF c.valid THEN SubSeq(s, 1, c.len) ELSE <<239, 191, 189>>)
             \o DecodeUtf8Lossy(SubSeq(s, c.len + 1, Len(s)))

\* form_urlencoded::decode, applied to a name and to a value.
FormDecode(s) == DecodeUtf8Lossy(PercentDecode(ReplacePlus(s)))

RECURSIVE FormParse(_)
\* form_urlencoded::parse: the input is cut at every '&', empty segments are
\* skipped, a segment is cut at its first '=' (no '=': the value is empty), and
\* name and value are decoded.  A pair is <<name, value>>.
FormParse(input) ==
    IF input = <<>> THEN <<>>
    ELSE LET amp      == IndexOf(input, 38)
             sequence == IF amp = 0 THEN input ELSE SubSeq(input, 1, amp - 1)
             rest     == IF amp = 0 THEN <<>> ELSE SubSeq(input, amp + 1, Len(input))
             eq       == IndexOf(sequence, 61)
             name     == IF eq = 0 THEN sequence ELSE SubSeq(sequence, 1, eq - 1)
             value    == IF eq = 0 THEN <<>>
                         ELSE SubSeq(sequence, eq + 1, Len(sequence))
         IN IF sequence = <<>> THEN FormParse(rest)
            ELSE <<<<FormDecode(name), FormDecode(value)>>>> \o FormParse(rest)

\* form_urlencoded::byte_serialize on one byte.
ByteSerialize(b) ==
    IF \/ IsAsciiAlpha(b)
       \/ IsAsciiDigit(b)
       \/ b \in {42, 45, 46, 95}          \* '*' '-' '.' '_'
    THEN <<b>>
    ELSE IF b = 32 THEN <<43>>             \* ' ' becomes '+'
    ELSE PercentEncodeByte(b)

\* form_urlencoded::byte_serialize on a string.
FormEncode(s) == Concat([i \in 1..Len(s) |-> ByteSerialize(s[i])])

RECURSIVE FormSerialize(_)
\* form_urlencoded::Serializer::extend_pairs on an empty target:
\* "name=value" for every pair, joined by '&'.
FormSerialize(pairs) ==
    IF pairs = <<>> THEN <<>>
    ELSE FormEncode(pairs[1][1]) \o <<61>> \o FormEncode(pairs[1][2])
             \o (IF Len(pairs) = 1 THEN <<>> ELSE <<38>> \o FormSerialize(Tail(pairs)))

\* The schemes the url crate calls special; their URLs have a host.
SpecialSchemes ==
    { <<104, 116, 116, 112>>,              \* "http"
      <<104, 116, 116, 112, 115>>,         \* "https"
      <<119, 115>>,                        \* "ws"
      <<119, 115, 115>>,                   \* "wss"
      <<102, 116, 112>> }                  \* "ftp"

\* Whether s is a scheme: a letter, then letters, digits, '+', '-' and '.'.
IsScheme(s) ==
    /\ s # <<>>
    /\ IsAsciiAlpha(s[1])
    /\ \A i \in 1..Len(s) :
           IsAsciiAlpha(s[i]) \/ IsAsciiDigit(s[i]) \/ s[i] \in {43, 45, 46}

RECURSIVE StripSlashes(_)
\* The input without its leading '/' and '\'.
StripSlashes(s) ==
    IF s # <<>> /\ s[1] \in {47, 92} THEN StripSlashes(Tail(s)) ELSE s

\* The parser's percent-encoding of one byte of a query.
QueryEncodeByte(b, special) ==
    IF \/ b <= 32 \/ b >= 127
       \/ b \in {34, 35, 60, 62}           \* '"' '#' '<' '>'
       \/ (special /\ b = 39)              \* '\''
    THEN PercentEncodeByte(b)
    ELSE <<b>>

QueryEncode(q, special) ==
    Concat([i \in 1..Len(q) |-> QueryEncodeByte(q[i], special)])

\* Url::parse with no base URL.  The model covers what task_id depends on: the
\* scheme, the host of a special scheme being there, and the cut into
\* authority-and-path, query and fragment.  Inputs are lower-case, carry no
\* credentials, port, dot segments or characters the path and fragment
\* encoders would rewrite, and no leading or trailing white space; on those
\* the parser keeps authority, path and fragment as written.
UrlParse(input) ==
    LET colon  == IndexOf(input, 58)
        scheme == IF colon = 0 THEN <<>> ELSE SubSeq(input, 1, colon - 1)
    IN
    IF ~IsScheme(scheme) THEN Err("relative URL without a base")
    ELSE
      LET after   == SubSeq(input, colon + 1, Len(input))
          hash    == IndexOf(after, 35)
          noFrag  == IF hash = 0 THEN after ELSE SubSeq(after, 1, hash - 1)
          frag    == IF hash = 0 THEN None
                     ELSE Some(SubSeq(after, hash + 1, Len(after)))
          qm      == IndexOf(noFrag, 63)
          body    == IF qm = 0 THEN noFrag ELSE SubSeq(noFrag, 1, qm - 1)
          special == scheme \in SpecialSchemes
          query   == IF qm = 0 THEN None
                     ELSE Some(QueryEncode(SubSeq(noFrag, qm + 1, Len(noFrag)),
                                           special))
          hostPath == StripSlashes(body)
          slash    == IndexOf(hostPath, 47)
          host     == IF slash = 0 THEN hostPath
                      ELSE SubSeq(hostPath, 1, slash - 1)
          path     == IF slash = 0 THEN <<47>>
                      ELSE SubSeq(hostPath, slash, Len(hostPath))
      IN
      IF special /\ host = <<>> THEN Err("empty host")
      ELSE Ok([ scheme   |-> scheme,
                rest     |-> IF special THEN <<47, 47>> \o host \o path ELSE body,
                query    |-> query,
                fragment |-> frag ])

\* Url::query_pairs: the pairs of the query, none when there is no query.
QueryPairs(url) ==
    IF IsSome(url.query) THEN FormParse(Unwrap(url.query)) ELSE <<>>

\* Url::query_pairs_mut().clear().extend_pairs(pairs): the query becomes the
\* serialised pairs, the empty query when there are none; the fragment stays.
SetQueryPairs(url, pairs) == [url EXCEPT !.query = Some(FormSerialize(pairs))]

\* Url's Display: scheme ":" rest ["?" query] ["#" fragment].
UrlToString(url) ==
    url.scheme \o <<58>> \o url.rest
        \o (IF IsSome(url.query) THEN <<63>> \o Unwrap(url.query) ELSE <<>>)
        \o (IF IsSome(url.fragment) THEN <<35>> \o Unwrap(url.fragment) ELSE <<>>)

(***************************************************************************)
(* The sha2 and hex crates.                                                *)
(***************************************************************************)
\* The length in bytes of a SHA-256 digest.
Sha256OutputLen == 32

RECURSIVE WeightedSum(_, _, _)
\* The sum over i in lo..hi of s[i] * (i + 1), modulo 2^16.
WeightedSum(s, lo, hi) ==
    IF lo > hi THEN 0
    ELSE IF lo = hi THEN (s[lo] * (lo + 1)) % 65536
    ELSE LET mid == (lo + hi) \div 2 IN
         (WeightedSum(s, lo, mid) + WeightedSum(s, mid + 1, hi)) % 65536

\* Sha256::finalize on a hasher fed the bytes s.  SHA-256 itself is not
\* modelled bit by bit: this is a deterministic function of the bytes fed,
\* of SHA-256's output length.  It is not collision free, so a claim that
\* rests on collision freedom is stated on the bytes fed to the hasher.
Sha256(s) ==
    LET h == (WeightedSum(s, 1, Len(s)) + 251 * Len(s)) % 65536 IN
    [i \in 1..Sha256OutputLen |-> ((h \div 256) * i + (h % 256) + 13 * i) % 256]

\* hex::encode: two lower-case hexadecimal digits per byte.
HexEncode(bytes) ==
    [i \in 1..(2 * Len(bytes)) |->
        LET b == bytes[(i + 1) \div 2] IN
        IF i % 2 = 1 THEN LowerHex[(b \div 16) + 1] ELSE LowerHex[(b % 16) + 1]]

(***************************************************************************)
(* The error taxonomy: ErrorType, ExternalError and OrErr (error/errors.rs)*)
(* and DFError with its conversions (error/mod.rs).                        *)
(***************************************************************************)
\* ExternalError::new(etype): an envelope of category etype with no cause.
ExternalErrorNew(etype) == [etype |-> etype, cause |-> None]

\* ExternalError::with_cause(cause): the cause is kept by its message.
WithCause(e, cause) == [e EXCEPT !.cause = Some(cause)]

\* OrErr::or_err on a failed Result: the failure becomes the cause of an
\* envelope of category etype.
or_err(cause, etype) == WithCause(ExternalErrorNew(etype), cause)

\* ExternalError's Display: the category, then " cause: " and the cause's
\* rendering when a cause is attached.
ExternalErrorDisplay(e) ==
    IF IsSome(e.cause) THEN e.etype \o " cause: " \o Unwrap(e.cause) ELSE e.etype

\* Mutant: a closed channel is reported as a send failure.
FromSendTimeoutErrorSplit(err) ==
    IF err.variant = "Timeout" THEN [kind |-> "SendTimeout"]
    ELSE [kind |-> "MpscSend", msg |-> "channel closed"]

\* impl From<std::io::Error> for DFError (#[from]).
FromIoError(e) == [kind |-> "IO", source |-> e.msg]

\* tokio's Display of mpsc::error::SendError<T>.
SendErrorToString(e) == "channel closed"

\* impl From<mpsc::error::SendError<T>> for DFError.
FromSendError(e) == [kind |-> "MpscSend", msg |-> SendErrorToString(e)]

\* impl From<mpsc::error::SendTimeoutError<T>> for DFError.
FromSendTimeoutError(err) ==
    CASE err.variant = "Timeout" -> [kind |-> "SendTimeout"]
      [] err.variant = "Closed"  -> [kind |-> "SendTimeout"]

\* impl From<ExternalError> for DFError (#[from]).
FromExternalError(e) == [kind |-> "ExternalError", source |-> e]

\* The conversion of a native failure into DFError at a call boundary.
IntoDFError(f) ==
    CASE f.type = "io::Error"         -> FromIoError(f)
      [] f.type = "SendError"         -> FromSendError(f)
      [] f.type = "SendTimeoutError"  -> FromSendTimeoutError(f)
      [] f.type = "ExternalError"     -> FromExternalError(f.err)

\* Mutant: the external-error case renders under a fixed prefix of its own.
DFErrorDisplayPrefixed(e) ==
    CASE e.kind = "IO"            -> e.source
      [] e.kind = "MpscSend"      -> "mpsc send: " \o e.msg
      [] e.kind = "SendTimeout"   -> "send timeout"
      [] e.kind = "ExternalError" -> "external error: " \o ExternalErrorDisplay(e.source)

\* DFError's Display, as thiserror derives it from the #[error(..)] attributes.
DFErrorDisplay(e) ==
    CASE e.kind = "IO"            -> e.source
      [] e.kind = "MpscSend"      -> "mpsc send: " \o e.msg
      [] e.kind = "SendTimeout"   -> "send timeout"
      [] e.kind = "ExternalError" -> ExternalErrorDisplay(e.source)

(***************************************************************************)
(* IDGenerator.  self is the record [ip, hostname, is_seed_peer].          *)
(***************************************************************************)
Dash == <<45>>                          \* "-"
Seed == <<115, 101, 101, 100>>          \* "seed"

\* IDGenerator::new.
New(ip, hostname, is_seed_peer) ==
    [ip |-> ip, hostname |-> hostname, is_seed_peer |-> is_seed_peer]

\* Mutant: the seed suffix goes to the hosts that are not seed peers.
host_id_inverted(self) ==
    IF ~self.is_seed_peer
    THEN Concat(<<self.ip, Dash, self.hostname, Dash, Seed>>)
    ELSE Concat(<<self.ip, Dash, self.hostname>>)

\* IDGenerator::host_id.
host_id(self) ==
    IF self.is_seed_peer
    THEN Concat(<<self.ip, Dash, self.hostname, Dash, Seed>>)
    ELSE Concat(<<self.ip, Dash, self.hostname>>)

\* IDGenerator::peer_id, uuid being the text of the Uuid::new_v4() it draws.
peer_id(self, uuid) ==
    IF self.is_seed_peer
    THEN Concat(<<self.ip, Dash, self.hostname, Dash, uuid, Dash, Seed>>)
    ELSE Concat(<<self.ip, Dash, self.hostname, Dash, uuid>>)

\* Vec<String>::contains.
Contains(list, x) == \E i \in 1..Len(list) : list[i] = x

\* Mutant: the listed parameters are the ones dropped.
FilterQueryExclude(pairs, filtered_query_params) ==
    SelectSeq(pairs, LAMBDA p : ~Contains(filtered_query_params, p[1]))

\* The filter of task_id: the pairs whose key is listed, in their order.
FilterQuery(pairs, filtered_query_params) ==
    SelectSeq(pairs, LAMBDA p : Contains(filtered_query_params, p[1]))

\* artifact_url of task_id: the parsed URL with its query replaced by the
\* filtered pairs.
ArtifactUrl(url, filtered_query_params) ==
    SetQueryPairs(url, FilterQuery(QueryPairs(url), filtered_query_params))

\* The bytes an Option<&str> adds to the hasher.
UpdateIfSome(o) == IF IsSome(o) THEN Unwrap(o) ELSE <<>>

\* Mutant: the host's ip is hashed too.
HasherUpdatesWithIp(self, artifact_url, digest, tag, application, piece_length) ==
    Concat(<< UrlToString(artifact_url), self.ip, UpdateIfSome(digest),
              UpdateIfSome(tag), UpdateIfSome(application),
              U64ToString(piece_length) >>)

\* Mutant: an absent field is hashed as the text "None".
HasherUpdatesPlaceholder(self, artifact_url, digest, tag, application, piece_length) ==
    LET none == <<78, 111, 110, 101>>
        upd(o) == IF IsSome(o) THEN Unwrap(o) ELSE none
    IN Concat(<< UrlToString(artifact_url), upd(digest), upd(tag),
                 upd(application), U64ToString(piece_length) >>)

\* The hasher.update calls of task_id, in order: what the hasher has been fed
\* when finalize is called.
HasherUpdates(self, artifact_url, digest, tag, application, piece_length) ==
    Concat(<< UrlToString(artifact_url), UpdateIfSome(digest),
              UpdateIfSome(tag), UpdateIfSome(application),
              U64ToString(piece_length) >>)

\* Mutant: a URL that does not parse is reported as a storage failure.
ParseFailureStorage(cause) == FromExternalError(or_err(cause, "StorageError"))

\* Url::parse(url).or_err(ErrorType::ParseError)? on a URL that does not parse.
ParseFailure(cause) == FromExternalError(or_err(cause, "ParseError"))

\* task_id up to the last hasher.update: the bytes fed to the hasher, or the
\* error task_id returns early with.
task_id_hasher(self, url, digest, tag, application, piece_length, filtered_query_params) ==
    LET parsed == UrlParse(url) IN
    IF ~parsed.ok THEN Err(ParseFailure(parsed.err))
    ELSE Ok(HasherUpdates(self, ArtifactUrl(parsed.val, filtered_query_params),
                          digest, tag, application, piece_length))

\* IDGenerator::task_id.
task_id(self, url, digest, tag, application, piece_length, filtered_query_params) ==
    LET h == task_id_hasher(self, url, digest, tag, application, piece_length,
                            filtered_query_params)
    IN IF h.ok THEN Ok(HexEncode(Sha256(h.val))) ELSE h

(***************************************************************************)
(* The inputs the model draws.                                             *)
(***************************************************************************)
Ips == { <<49, 48, 46, 48, 46, 48, 46, 49>>,                \* "10.0.0.1"
         <<49, 48, 46, 48, 46, 48, 46, 50>> }               \* "10.0.0.2"

Hostnames == { <<104, 111, 115, 116, 45, 97>>,              \* "host-a"
               <<110, 111, 100, 101>>,                      \* "node"
               <<110, 111, 100, 101, 45, 115, 101, 101, 100>>,  \* "node-seed"
               <<115, 101, 101, 100>> }                     \* "seed"

Generators == { New(ip, hostname, seed) :
                    ip \in Ips, hostname \in Hostnames, seed \in BOOLEAN }

\* A host and a seed peer that differ in ip, hostname and is_seed_peer.
HostA == New(<<49, 48, 46, 48, 46, 48, 46, 49>>, <<104, 111, 115, 116, 45, 97>>, FALSE)
SeedB == New(<<49, 48, 46, 48, 46, 48, 46, 50>>, <<110, 111, 100, 101>>, TRUE)

\* Texts of version-4 UUIDs, as Uuid::new_v4() may draw them.
Uuids ==
    { <<97, 49, 98, 50, 99, 51, 100, 52, 45, 48, 48, 48, 48, 45, 52, 48, 48, 48,
        45, 56, 48, 48, 48, 45, 48, 48, 48, 48, 48, 48, 48, 48, 48, 48, 48, 49>>,
      <<97, 49, 98, 50, 99, 51, 100, 52, 45, 48, 48, 48, 48, 45, 52, 48, 48, 48,
        45, 56, 48, 48, 48, 45, 48, 48, 48, 48, 48, 48, 48, 48, 48, 48, 48, 50>> }

BaseUrl == <<104, 116, 116, 112, 58, 47, 47, 104, 47, 112>>    \* "http://h/p"

\* The segments query strings are built from.
Segments == { <<97, 61, 49>>,              \* "a=1"
              <<97, 61, 37, 70, 70>>,      \* "a=%FF"
              <<97, 61, 37, 70, 69>>,      \* "a=%FE"
              <<98, 61, 49>> }             \* "b=1"

RECURSIVE Join(_)
\* The segments joined by '&'.
Join(segs) ==
    IF segs = <<>> THEN <<>>
    ELSE IF Len(segs) = 1 THEN segs[1]
    ELSE segs[1] \o <<38>> \o Join(Tail(segs))

\* The query strings of at most MaxPairs segments, the empty one included.
Queries == { Join(segs) : segs \in UNION { [1..n -> Segments] : n \in 0..MaxPairs } }

\* Strings that are not absolute URIs.
BadUrls == { <<110, 111, 116, 32, 97, 32, 117, 114, 108>>,    \* "not a url"
             <<>>,                                            \* ""
             <<47, 47, 104, 47, 112>>,                        \* "//h/p"
             <<104, 116, 116, 112, 58, 47, 47>> }             \* "http://"

\* BaseUrl with no query, with every query, and twice with a fragment.
GoodUrls ==
    {BaseUrl}
        \cup { BaseUrl \o <<63>> \o q : q \in Queries }
        \cup { BaseUrl \o <<35, 102>>,                        \* "http://h/p#f"
               BaseUrl \o <<63, 98, 61, 49, 35, 102>> }       \* "http://h/p?b=1#f"

SigLists == { <<>>, << <<97>> >>, << <<97>>, <<98>> >> }      \* [], ["a"], ["a", "b"]

Args(url, digest, tag, application, piece_length, filtered_query_params) ==
    [ url |-> url, digest |-> digest, tag |-> tag, application |-> application,
      piece_length |-> piece_length,
      filtered_query_params |-> filtered_query_params ]

\* Calls that vary the URL and the significant parameters.
QueryArgs ==
    { Args(url, Some(<<97, 98>>), None, Some(<<49>>), 4194304, sig) :
          url \in GoodUrls \cup BadUrls, sig \in SigLists }

Digests      == { None, Some(<<>>), Some(<<97>>), Some(<<97, 98>>) }   \* "", "a", "ab"
Tags         == { None, Some(<<>>), Some(<<98>>) }                     \* "", "b"
Applications == { None, Some(<<49>>) }                                 \* "1"
PieceLengths == { 1, 11, 4194304 }

FieldUrl == BaseUrl \o <<63, 97, 61, 49>>                     \* "http://h/p?a=1"

\* Calls that vary digest, tag, application and piece_length.
FieldArgs ==
    { Args(url, digest, tag, application, piece_length, << <<97>> >>) :
          url \in {FieldUrl, <<110, 111, 116, 32, 97, 32, 117, 114, 108>>},
          digest \in Digests, tag \in Tags, application \in Applications,
          piece_length \in PieceLengths }

ExternalErrors ==
    { ExternalErrorNew(etype) : etype \in {"StorageError", "ParseError"} }
        \cup { or_err(cause, etype) :
                   cause \in {"inner error", "relative URL without a base"},
                   etype \in {"StorageError", "ParseError"} }

\* The native failures a call boundary may see.
Failures ==
    { [type |-> "io::Error", msg |-> "inner error"],
      [type |-> "SendError"],
      [type |-> "SendTimeoutError", variant |-> "Timeout"],
      [type |-> "SendTimeoutError", variant |-> "Closed"] }
        \cup { [type |-> "ExternalError", err |-> e] : e \in ExternalErrors }

\* The most peer ids one generator is asked for.
MaxPeerIds == 2

(***************************************************************************)
(* The state machine.  A run observes two generators, two task_id calls    *)
(* and two failures, so that calls can be compared with one another.       *)
(***************************************************************************)
Pair(S) == [1..2 -> S]

NothingYet == <<None, None>>

InitIds ==
    /\ gens \in Pair(Generators)
    /\ inputs \in Pair({Args(FieldUrl, None, None, None, 1, <<>>)})
    /\ failure \in Pair({[type |-> "SendError"]})
    /\ hashed = NothingYet /\ out = NothingYet
    /\ hostOut = NothingYet /\ peerOut = <<<<>>, <<>>>>
    /\ dferr = NothingYet /\ rendered = NothingYet

InitQuery ==
    /\ gens = <<HostA, SeedB>>
    /\ inputs \in Pair(QueryArgs)
    /\ failure \in Pair({[type |-> "SendError"]})
    /\ hashed = NothingYet /\ out = NothingYet
    /\ hostOut = NothingYet /\ peerOut = <<<<>>, <<>>>>
    /\ dferr = NothingYet /\ rendered = NothingYet

InitFields ==
    /\ gens \in {<<HostA, HostA>>, <<HostA, SeedB>>}
    /\ inputs \in Pair(FieldArgs)
    /\ failure \in Pair({[type |-> "SendError"]})
    /\ hashed = NothingYet /\ out = NothingYet
    /\ hostOut = NothingYet /\ peerOut = <<<<>>, <<>>>>
    /\ dferr = NothingYet /\ rendered = NothingYet

InitErr ==
    /\ gens = <<HostA, SeedB>>
    /\ inputs \in Pair({Args(FieldUrl, None, None, None, 1, <<>>)})
    /\ failure \in Pair(Failures)
    /\ hashed = NothingYet /\ out = NothingYet
    /\ hostOut = NothingYet /\ peerOut = <<<<>>, <<>>>>
    /\ dferr = NothingYet /\ rendered = NothingYet

\* Generator i is asked for its host id.
HostId(i) ==
    /\ hostOut[i] = None
    /\ hostOut' = [hostOut EXCEPT ![i] = Some(host_id(gens[i]))]
    /\ UNCHANGED <<gens, inputs, hashed, out, peerOut, failure, dferr, rendered>>

\* Generator i is asked for a peer id; Uuid::new_v4() draws uuid.
PeerId(i) ==
    /\ Len(peerOut[i]) < MaxPeerIds
    /\ \E uuid \in Uuids :
           peerOut' = [peerOut EXCEPT ![i] = Append(@, peer_id(gens[i], uuid))]
    /\ UNCHANGED <<gens, inputs, hashed, out, hostOut, failure, dferr, rendered>>

\* Generator i is asked for the task id of inputs[i].
TaskId(i) ==
    /\ out[i] = None
    /\ LET a == inputs[i]
           h == task_id_hasher(gens[i], a.url, a.digest, a.tag, a.application,
                               a.piece_length, a.filtered_query_params)
       IN /\ hashed' = [hashed EXCEPT ![i] = IF h.ok THEN Some(h.val) ELSE None]
          /\ out' = [out EXCEPT ![i] =
                         Some(task_id(gens[i], a.url, a.digest, a.tag, a.application,
                                      a.piece_length, a.filtered_query_params))]
    /\ UNCHANGED <<gens, inputs, hostOut, peerOut, failure, dferr, rendered>>

\* Failure i is converted into the taxonomy.
Convert(i) ==
    /\ dferr[i] = None
    /\ dferr' = [dferr EXCEPT ![i] = Some(IntoDFError(failure[i]))]
    /\ UNCHANGED <<gens, inputs, hashed, out, hostOut, peerOut, failure, rendered>>

\* The converted failure i is rendered for a log.
Render(i) ==
    /\ IsSome(dferr[i])
    /\ rendered[i] = None
    /\ rendered' = [rendered EXCEPT ![i] = Some(DFErrorDisplay(Unwrap(dferr[i])))]
    /\ UNCHANGED <<gens, inputs, hashed, out, hostOut, peerOut, failure, dferr>>

NextIds == \E i \in 1..2 : HostId(i) \/ PeerId(i)
NextTask == \E i \in 1..2 : TaskId(i)
NextErr == \E i \in 1..2 : Convert(i) \/ Render(i)

\* host_id and peer_id on every pair of generators.
SpecIds == InitIds /\ [][NextIds]_vars
\* task_id on URLs and significant-parameter lists.
SpecQuery == InitQuery /\ [][NextTask]_vars
\* task_id on digests, tags, applications and piece lengths.
SpecFields == InitFields /\ [][NextTask]_vars
\* The conversions and renderings of the error taxonomy.
SpecErr == InitErr /\ [][NextErr]_vars

(***************************************************************************)
(* What the properties below say about a URL as written: its part before   *)
(* the query, its fragment, and the segments of its query.                 *)
(***************************************************************************)
\* The URL text up to its fragment.
RawNoFragment(u) ==
    LET hash == IndexOf(u, 35) IN IF hash = 0 THEN u ELSE SubSeq(u, 1, hash - 1)

\* The fragment as written, '#' included, or nothing.
RawFragment(u) ==
    LET hash == IndexOf(u, 35) IN IF hash = 0 THEN <<>> ELSE SubSeq(u, hash, Len(u))

\* The URL text before '?'.
RawBase(u) ==
    LET n == RawNoFragment(u)  qm == IndexOf(n, 63)
    IN IF qm = 0 THEN n ELSE SubSeq(n, 1, qm - 1)

HasQuery(u) == IndexOf(RawNoFragment(u), 63) # 0

\* The query as written, empty when there is none.
RawQuery(u) ==
    LET n == RawNoFragment(u)  qm == IndexOf(n, 63)
    IN IF qm = 0 THEN <<>> ELSE SubSeq(n, qm + 1, Len(n))

RECURSIVE RawSegments(_)
\* The non-empty '&'-separated segments of a query, as written.
RawSegments(q) ==
    IF q = <<>> THEN <<>>
    ELSE LET amp  == IndexOf(q, 38)
             seg  == IF amp = 0 THEN q ELSE SubSeq(q, 1, amp - 1)
             rest == IF amp = 0 THEN <<>> ELSE SubSeq(q, amp + 1, Len(q))
         IN (IF seg = <<>> THEN <<>> ELSE <<seg>>) \o RawSegments(rest)

RawName(seg) ==
    LET eq == IndexOf(seg, 61) IN IF eq = 0 THEN seg ELSE SubSeq(seg, 1, eq - 1)

RawValue(seg) ==
    LET eq == IndexOf(seg, 61) IN IF eq = 0 THEN <<>> ELSE SubSeq(seg, eq + 1, Len(seg))

\* The segments of u whose key is in the list, as written and in order.
ListedSegments(u, list) ==
    SelectSeq(RawSegments(RawQuery(u)),
              LAMBDA seg : Contains(list, FormDecode(RawName(seg))))

\* The bytes a written name or value stands for: '+' is a space, "%XY" a byte.
ValueBytes(s) == PercentDecode(ReplacePlus(s))

\* The listed parameters of u as pairs of the bytes they stand for.
ListedParameters(u, list) ==
    LET segs == ListedSegments(u, list) IN
    [i \in 1..Len(segs) |-> <<ValueBytes(RawName(segs[i])), ValueBytes(RawValue(segs[i]))>>]

\* Two calls whose arguments other than the URL are the same.
SameButUrl(a, b) ==
    /\ a.digest = b.digest /\ a.tag = b.tag /\ a.application = b.application
    /\ a.piece_length = b.piece_length
    /\ a.filtered_query_params = b.filtered_query_params

\* Two calls on URLs that are the same outside their queries.
SameButQuery(a, b) ==
    /\ SameButUrl(a, b)
    /\ a.url \notin BadUrls /\ b.url \notin BadUrls
    /\ RawBase(a.url) = RawBase(b.url)
    /\ RawFragment(a.url) = RawFragment(b.url)

\* Two calls that differ at most in query parameters whose keys are not listed.
DifferOnlyInUnlisted(a, b) ==
    /\ SameButQuery(a, b)
    /\ ListedSegments(a.url, a.filtered_query_params)
           = ListedSegments(b.url, b.filtered_query_params)

BothReturned == IsSome(out[1]) /\ IsSome(out[2])

(***************************************************************************)
(* The properties.                                                         *)
(***************************************************************************)
\* C1: two parseable URLs that differ only in query parameters whose keys are
\* not in the significant list (added, removed or changed, one URL possibly
\* having no query at all) get the same task id, all other arguments equal.
C1_UnlistedParamsIgnored ==
    (BothReturned /\ DifferOnlyInUnlisted(inputs[1], inputs[2]))
        => (out[1] = out[2] /\ Unwrap(out[1]).ok)

\* C1's case: a URL with no query and the same URL with an unlisted parameter,
\* under a non-empty significant list, have both been given their task id.
C1_Witness ==
    /\ BothReturned
    /\ DifferOnlyInUnlisted(inputs[1], inputs[2])
    /\ inputs[1].filtered_query_params # <<>>
    /\ ~HasQuery(inputs[1].url)
    /\ RawSegments(RawQuery(inputs[2].url)) # <<>>
    /\ out[1] = out[2] /\ Unwrap(out[1]).ok

LowerHexDigits == (48..57) \cup (97..102)

\* C2: task_id depends on its arguments only: two calls with the same
\* arguments, on the same generator or on generators of different ip,
\* hostname and is_seed_peer, return the same value, and a returned
\* identifier is 64 characters out of 0-9 and a-f.
C2_TaskIdPure ==
    /\ \A i \in 1..2 :
           (IsSome(out[i]) /\ Unwrap(out[i]).ok)
               => /\ Len(Unwrap(out[i]).val) = 64
                  /\ \A k \in 1..Len(Unwrap(out[i]).val) :
                         Unwrap(out[i]).val[k] \in LowerHexDigits
    /\ (BothReturned /\ inputs[1] = inputs[2]) => out[1] = out[2]

\* C2's case: the same arguments went to two generators that differ in ip,
\* hostname and is_seed_peer, and an identifier came back.
C2_Witness ==
    /\ BothReturned
    /\ inputs[1] = inputs[2]
    /\ gens[1].ip # gens[2].ip
    /\ gens[1].hostname # gens[2].hostname
    /\ gens[1].is_seed_peer # gens[2].is_seed_peer
    /\ Unwrap(out[1]).ok

\* C3: on a string that is not an absolute URI task_id returns an external
\* error of category ParseError and hashes nothing; on every other URL it
\* returns an identifier, whatever the other arguments are.
C3_ParseErrorIffNotUri ==
    \A i \in 1..2 :
        IsSome(out[i]) =>
            IF inputs[i].url \in BadUrls
            THEN /\ ~Unwrap(out[i]).ok
                 /\ Unwrap(out[i]).err.kind = "ExternalError"
                 /\ Unwrap(out[i]).err.source.etype = "ParseError"
                 /\ hashed[i] = None
            ELSE /\ Unwrap(out[i]).ok
                 /\ Len(Unwrap(out[i]).val) = 64

\* C3's case: "not a url" was refused with a ParseError and a URL was accepted.
C3_Witness ==
    /\ BothReturned
    /\ inputs[1].url = <<110, 111, 116, 32, 97, 32, 117, 114, 108>>
    /\ ~Unwrap(out[1]).ok
    /\ Unwrap(out[1]).err.source.etype = "ParseError"
    /\ Unwrap(out[2]).ok

\* Two calls that differ in piece_length and in nothing else.
DifferInPieceLength(a, b) ==
    /\ a.url = b.url /\ a.digest = b.digest /\ a.tag = b.tag
    /\ a.application = b.application
    /\ a.filtered_query_params = b.filtered_query_params
    /\ a.piece_length # b.piece_length

\* C4: two calls on a parseable URL that differ in piece_length only feed
\* different bytes to the hash.
C4_PieceLengthChangesHashInput ==
    (IsSome(hashed[1]) /\ IsSome(hashed[2]) /\ DifferInPieceLength(inputs[1], inputs[2]))
        => hashed[1] # hashed[2]

\* C4's case: piece lengths 1 and 11, all else equal, have both been hashed.
C4_Witness ==
    /\ IsSome(hashed[1]) /\ IsSome(hashed[2])
    /\ DifferInPieceLength(inputs[1], inputs[2])
    /\ inputs[1].piece_length = 1 /\ inputs[2].piece_length = 11
    /\ IsSome(inputs[1].digest)

\* C5: two parseable URLs that differ in a query parameter whose key is in
\* the significant list (the bytes of its value, its presence, or how often
\* it occurs) feed different bytes to the hash, all other arguments equal.
C5_ListedParamsDistinguished ==
    ( /\ IsSome(hashed[1]) /\ IsSome(hashed[2])
      /\ SameButQuery(inputs[1], inputs[2])
      /\ ListedParameters(inputs[1].url, inputs[1].filtered_query_params)
             # ListedParameters(inputs[2].url, inputs[2].filtered_query_params) )
        => hashed[1] # hashed[2]

SeedSuffix == <<45, 115, 101, 101, 100>>        \* "-seed"

\* C6 as stated: a host id ends with "-seed" exactly when is_seed_peer is true.
C6_SeedSuffixIffSeedPeer ==
    \A i \in 1..2 :
        IsSome(hostOut[i])
            => (EndsWith(Unwrap(hostOut[i]), SeedSuffix) <=> gens[i].is_seed_peer)

\* C6 as amended: a host id ends with "-seed" exactly when is_seed_peer is
\* true or the hostname itself is "seed" or ends with "-seed".
C6_SeedSuffixAmended ==
    \A i \in 1..2 :
        IsSome(hostOut[i])
            => (EndsWith(Unwrap(hostOut[i]), SeedSuffix)
                    <=> \/ gens[i].is_seed_peer
                        \/ gens[i].hostname = Seed
                        \/ EndsWith(gens[i].hostname, SeedSuffix))

\* C6's case: a seed peer and a host that is no seed peer but is named
\* "node-seed" have both been given a host id ending with "-seed".
C6_Witness ==
    /\ IsSome(hostOut[1]) /\ IsSome(hostOut[2])
    /\ gens[1].is_seed_peer /\ ~gens[2].is_seed_peer
    /\ gens[2].hostname = <<110, 111, 100, 101, 45, 115, 101, 101, 100>>
    /\ EndsWith(Unwrap(hostOut[1]), SeedSuffix)
    /\ EndsWith(Unwrap(hostOut[2]), SeedSuffix)

\* The rendering the spec gives an external-error envelope.
EnvelopeText(e) ==
    IF e.cause = None THEN e.etype ELSE e.etype \o " cause: " \o e.cause[1]

\* C8: an external-error envelope converted into DFError renders as
\* "{category} cause: {cause}" with a cause and as "{category}" without one.
C8_EnvelopeRendering ==
    \A i \in 1..2 :
        (IsSome(rendered[i]) /\ failure[i].type = "ExternalError")
            => /\ Unwrap(dferr[i]).kind = "ExternalError"
               /\ Unwrap(rendered[i]) = EnvelopeText(failure[i].err)

\* C8's case: a storage envelope with the cause "inner error" and one with
\* no cause have both been converted and rendered.
C8_Witness ==
    /\ failure[1].type = "ExternalError" /\ failure[2].type = "ExternalError"
    /\ IsSome(failure[1].err.cause) /\ failure[2].err.cause = None
    /\ rendered[1] = Some("StorageError cause: inner error")
    /\ rendered[2] = Some("StorageError")

\* C9: a send failure becomes MpscSend with the failure's message; a
\* send-with-timeout failure becomes SendTimeout whether the wait timed out
\* or the channel was closed, so the two convert to the same error.
C9_ChannelFailures ==
    /\ \A i \in 1..2 :
           IsSome(dferr[i]) =>
               /\ failure[i].type = "SendError"
                      => Unwrap(dferr[i]) = [kind |-> "MpscSend", msg |-> "channel closed"]
               /\ failure[i].type = "SendTimeoutError"
                      => Unwrap(dferr[i]) = [kind |-> "SendTimeout"]
    /\ ( /\ IsSome(dferr[1]) /\ IsSome(dferr[2])
         /\ failure[1].type = "SendTimeoutError"
         /\ failure[2].type = "SendTimeoutError" )
           => /\ dferr[1] = dferr[2]
              /\ (IsSome(rendered[1]) /\ IsSome(rendered[2])) => rendered[1] = rendered[2]

\* C9's case: a timed-out send and a send on a closed channel have both been
\* converted and rendered.
C9_Witness ==
    /\ failure[1] = [type |-> "SendTimeoutError", variant |-> "Timeout"]
    /\ failure[2] = [type |-> "SendTimeoutError", variant |-> "Closed"]
    /\ IsSome(rendered[1]) /\ IsSome(rendered[2])
    /\ dferr[1] = dferr[2]

\* The decimal text of the piece lengths drawn.
DecimalText(n) ==
    CASE n = 1       -> <<49>>
      [] n = 11      -> <<49, 49>>
      [] n = 4194304 -> <<52, 49, 57, 52, 51, 48, 52>>

\* The canonical URL, then digest, tag and application where present, then
\* the decimal piece length, with nothing in between.  FieldUrl is its own
\* canonical form under the significant list ["a"].
PlainConcatenation(a) ==
    FieldUrl \o (IF a.digest = None THEN <<>> ELSE a.digest[1])
             \o (IF a.tag = None THEN <<>> ELSE a.tag[1])
             \o (IF a.application = None THEN <<>> ELSE a.application[1])
             \o DecimalText(a.piece_length)

\* C10: the bytes hashed are the plain concatenation of canonical URL, digest,
\* tag, application and decimal piece length, an absent field adding nothing;
\* so calls with equal concatenations get the same task id.
C10_PlainConcatenation ==
    /\ \A i \in 1..2 :
           IsSome(hashed[i]) => Unwrap(hashed[i]) = PlainConcatenation(inputs[i])
    /\ ( /\ BothReturned
         /\ Unwrap(out[1]).ok /\ Unwrap(out[2]).ok
         /\ PlainConcatenation(inputs[1]) = PlainConcatenation(inputs[2]) )
           => out[1] = out[2]

\* C10's case: digest "ab" with no tag and digest "a" with tag "b" got the
\* same task id.
C10_Witness ==
    /\ BothReturned
    /\ inputs[1].digest = Some(<<97, 98>>) /\ inputs[1].tag = None
    /\ inputs[2].digest = Some(<<97>>) /\ inputs[2].tag = Some(<<98>>)
    /\ inputs[1].application = inputs[2].application
    /\ inputs[1].piece_length = inputs[2].piece_length
    /\ Unwrap(out[1]).ok
    /\ out[1] = out[2]

====
